---- MODULE Spec2Model ----
(***************************************************************************)
(* Model of geomeat.data: the staged file pipeline                         *)
(*   get_data        : Fetch every sample through a worker pool            *)
(*   preprocess_data : Filter-all-samples, Merge, install SILVA, Preprocess *)
(* The filesystem, the worker pool and the per-sample executions are the   *)
(* state; every external command is a step with a nondeterministic result. *)
(***************************************************************************)
EXTENDS Naturals, Sequences, FiniteSets, TLC

\* ---------------------------------------------------------------- bounds
NumSamples == 2          \* rows of the dataset
MaxRuns    == 2          \* driver invocations (a run and its re-run)

\* ------------------------------------------------------ program constants
filter_chunks_default == 8
quality_average == 35
maximum_ambiguity == 0
maximum_homopolymers == 8

Samples      == 1..NumSamples
Workspaces   == 1..(NumSamples + 1)
target_types == <<"fasta", "group", "summary">>
TargetSet    == {target_types[i] : i \in 1..Len(target_types)}

\* the dataset rows, in file order (get_csv_data keeps the reader's order)
data == [i \in 1..NumSamples |-> i]

\* layout column of a row
layout(s) == IF s % 2 = 1 THEN "paired" ELSE "single"

\* results of a call of the shell: the status is zero, the status is
\* non-zero and is returned to the caller, or PopenError is raised
ShellResults == {"zero", "nonzero", "PopenError"}

\* the settings explored, settings.get("jobs") and
\* settings.get("filter_chunks"): one worker, and two workers with chunks
\* of one item, of two items and of the default size
SettingsChoices ==
    {[jobs |-> 1, filter_chunks |-> filter_chunks_default],
     [jobs |-> 2, filter_chunks |-> 1],
     [jobs |-> 2, filter_chunks |-> 2],
     [jobs |-> 2, filter_chunks |-> filter_chunks_default]}

VARIABLES
    jobs,           \* settings.get("jobs")
    filter_chunks,  \* settings.get("filter_chunks")
    trimmed,        \* row -> the text of its trimmed column in the dataset
    sra_files,      \* samples whose <sra_dir>/<sra>.sra exists
    fastq_files,    \* samples whose <sra_dir>/*.fastq exist
    filtered,       \* sample -> the filtered.<type> files in its directory
    merged,         \* the merged.<type> files at <data_dir>
    silva,          \* the reference database is installed
    preprocessed,   \* the files a Preprocess run that returned zero leaves
    cache,          \* workspace directories that exist under CACHE
    pc,             \* position of the driver
    runs,           \* driver invocations started so far
    chunks,         \* chunks of filter_fastq not yet given to a pool
    todo,           \* items of the current pool not yet started
    results,        \* items of the current pool not yet collected, in order
    ex,             \* sample -> its per-item execution
    bx,             \* execution of the running batch-level stage
    validated       \* samples whose vdb-validate has returned zero

vars == <<jobs, filter_chunks, trimmed, sra_files, fastq_files, filtered,
          merged, silva, preprocessed, cache, pc, runs, chunks, todo, results, ex, bx,
          validated>>

fsvars  == <<sra_files, fastq_files, filtered, merged, silva, preprocessed>>
cfgvars == <<jobs, filter_chunks, trimmed>>

\* ---------------------------------------------------------------- helpers
\* an execution that has not been invoked
NoEx == [pc |-> "idle", fn |-> "none", ws |-> 0, wsfiles |-> {}, files |-> FALSE,
         called |-> {}, logged |-> {}, seenFastq |-> FALSE,
         seenSra |-> FALSE, seenTargets |-> {}, code |-> "none",
         err |-> "none", control |-> {}, script |-> {}, copies |-> <<>>]

\* per-item positions at which the worker process is executing the item
EndPcs == {"idle", "returned", "raised"}
Running(s) == ex[s].pc \notin EndPcs
RunningSet == {s \in Samples : Running(s)}

\* the value a finished step leaves in an execution record
Log(e, msg) == [e EXCEPT !.logged = @ \cup {msg}]
Call(e, tool) == [e EXCEPT !.called = @ \cup {tool}]


\* the trimmed column of a row, as the text found in the dataset file
trimmed_text(s) == trimmed[s]

\* auto_typecast: the texts True and False become booleans, any other text
\* of this column stays the text it was
auto_typecast(x) ==
    IF x \in {"True", "False"} THEN [type |-> "bool", value |-> x]
                               ELSE [type |-> "str",  value |-> x]

\* trim_type of a config: d["trimmed"] as loaded by get_csv_data
trim_type(s) == auto_typecast(trimmed_text(s))

\* any() in the place of all(): one existing path is enough
AllExist_any(s) == \E i \in 1..Len(target_types) : target_types[i] \in filtered[s]

\* line 145, all(osp.exists(x) for x in itervalues(target_path))
AllExist(s) == \A i \in 1..Len(target_types) : target_types[i] \in filtered[s]

\* a workspace of a fixed name under CACHE
make_temp_dir_fixed == CHOOSE w \in Workspaces : \A v \in Workspaces : w <= v

\* make_temp_dir(root_dir = CACHE): a directory that did not exist
make_temp_dir ==
    CHOOSE w \in Workspaces \ cache : \A v \in Workspaces \ cache : w <= v

\* chunkify: consecutive slices of n items
RECURSIVE chunkify(_, _)
chunkify(arr, n) ==
    IF Len(arr) = 0 THEN <<>>
    ELSE IF Len(arr) <= n THEN <<arr>>
    ELSE <<SubSeq(arr, 1, n)>> \o chunkify(SubSeq(arr, n + 1, Len(arr)), n)

\* ------------------------------------------------------------------- Init
\* directories a sample can be found in when the program starts: nothing,
\* the FASTQ files without the archive, everything up to the filtered files,
\* and a set of filtered files that no run of the stage leaves; each with
\* one of the texts the trimmed column of the row holds
InitDirs ==
    <<[sra |-> FALSE, fastq |-> FALSE, filt |-> {}, trimmed |-> "false"],
      [sra |-> FALSE, fastq |-> TRUE,  filt |-> {}, trimmed |-> "False"],
      [sra |-> TRUE,  fastq |-> TRUE,  filt |-> TargetSet, trimmed |-> "True"],
      [sra |-> TRUE,  fastq |-> TRUE,  filt |-> {"group", "summary"},
       trimmed |-> "true"]>>

\* the datasets explored: every sample is found in every one of the
\* directories above, next to samples found in other ones
InitData ==
    {[s \in Samples |-> InitDirs[((s + k) % Len(InitDirs)) + 1]] :
        k \in 0..(Len(InitDirs) - 1)}

Init ==
    /\ \E c \in SettingsChoices :
          /\ jobs = c.jobs
          /\ filter_chunks = c.filter_chunks
    /\ \E d \in InitData :
          /\ trimmed     = [s \in Samples |-> d[s].trimmed]
          /\ sra_files   = {s \in Samples : d[s].sra}
          /\ fastq_files = {s \in Samples : d[s].fastq}
          /\ filtered    = [s \in Samples |-> d[s].filt]
          \* an archive found at start is taken to have been validated
          /\ validated   = {s \in Samples : d[s].sra}
    /\ merged = {}
    /\ silva = FALSE
    /\ preprocessed = FALSE
    /\ cache = {}
    /\ pc = "idle"
    /\ runs = 0
    /\ chunks = <<>>
    /\ todo = <<>>
    /\ results = <<>>
    /\ ex = [s \in Samples |-> NoEx]
    /\ bx = NoEx

\* ------------------------------------------------------------ get_fastq
\* lines 51-74: the prefetch gate and the prefetch call
FetchSra(s) ==
    /\ ex[s].pc = "sra"
    /\ IF s \in sra_files
       THEN /\ ex' = [ex EXCEPT ![s] = [Log(@, "warn_prefetched") EXCEPT !.pc = "fastq"]]
            /\ UNCHANGED sra_files
       ELSE \E r \in ShellResults :
            /\ sra_files' = IF r = "zero" THEN sra_files \cup {s} ELSE sra_files
            /\ ex' = [ex EXCEPT ![s] =
                 CASE r = "zero"       -> [Call(@, "prefetch") EXCEPT !.pc = "validate"]
                   [] r = "nonzero"    -> [Log(Call(@, "prefetch"), "err_prefetch")
                                              EXCEPT !.pc = "returned", !.code = r]
                   [] r = "PopenError" -> [Call(@, "prefetch")
                                              EXCEPT !.pc = "raised", !.err = r]]
    /\ UNCHANGED <<cfgvars, fastq_files, filtered, merged, silva, preprocessed, cache, pc,
                   runs, chunks, todo, results, bx, validated>>

\* lines 61-69: vdb-validate, reached only after a prefetch of this call
FetchValidate(s) ==
    /\ ex[s].pc = "validate"
    /\ \E r \in ShellResults :
         /\ validated' = IF r = "zero" THEN validated \cup {s} ELSE validated
         /\ ex' = [ex EXCEPT ![s] =
              CASE r = "zero"       -> [Call(@, "vdb-validate") EXCEPT !.pc = "fastq"]
                [] r = "nonzero"    -> [Log(Call(@, "vdb-validate"), "err_validate")
                                           EXCEPT !.pc = "returned", !.code = r]
                [] r = "PopenError" -> [Call(@, "vdb-validate")
                                           EXCEPT !.pc = "raised", !.err = r]]
    /\ UNCHANGED <<cfgvars, fsvars, cache, pc, runs, chunks, todo, results, bx>>

\* lines 76-90: the FASTQ gate and the fasterq-dump call
FetchFastq(s) ==
    /\ ex[s].pc = "fastq"
    /\ IF s \in fastq_files
       THEN /\ ex' = [ex EXCEPT ![s] = [Log(@, "warn_exists") EXCEPT !.pc = "returned"]]
            /\ UNCHANGED fastq_files
       ELSE \E r \in ShellResults :
            /\ fastq_files' = IF r = "zero" THEN fastq_files \cup {s} ELSE fastq_files
            /\ ex' = [ex EXCEPT ![s] =
                 CASE r = "zero"       -> [Call(@, "fasterq-dump")
                                              EXCEPT !.pc = "returned", !.code = r]
                   [] r = "nonzero"    -> [Log(Call(@, "fasterq-dump"), "err_download")
                                              EXCEPT !.pc = "returned", !.code = r]
                   [] r = "PopenError" -> [Call(@, "fasterq-dump")
                                              EXCEPT !.pc = "raised", !.err = r]]
    /\ UNCHANGED <<cfgvars, sra_files, filtered, merged, silva, preprocessed, cache, pc,
                   runs, chunks, todo, results, bx, validated>>

\* ------------------------------------------------------------- get_data
\* lines 92-106: the pool is created and every row is submitted
StartGetData ==
    /\ pc = "idle"
    /\ runs < MaxRuns
    /\ RunningSet = {}
    /\ pc' = "get_data"
    /\ runs' = runs + 1
    /\ todo' = data
    /\ results' = <<>>
    /\ chunks' = <<>>
    /\ ex' = [s \in Samples |-> NoEx]
    /\ bx' = NoEx
    /\ UNCHANGED <<cfgvars, fsvars, cache, validated>>

\* stages during which a pool is open
PoolPcs == {"get_data", "filter"}

\* the per-item function of the pool and the position at which it starts
EntryFn == IF pc = "get_data" THEN "get_fastq" ELSE "_mothur_filter_files"
EntryPc == IF pc = "get_data" THEN "sra" ELSE "check"

\* a pool that starts a process for every submitted item
Dispatch_unbounded ==
    /\ pc \in PoolPcs
    /\ todo # <<>>
    /\ LET s == Head(todo) IN
         /\ ex' = [ex EXCEPT ![s] = [@ EXCEPT !.pc = EntryPc, !.fn = EntryFn,
                                       !.seenSra = s \in sra_files,
                                       !.seenFastq = s \in fastq_files,
                                       !.seenTargets = filtered[s]]]
         /\ results' = Append(results, s)
    /\ todo' = Tail(todo)
    /\ UNCHANGED <<cfgvars, fsvars, cache, pc, runs, chunks, bx, validated>>

\* pool.imap: a free worker takes the next submitted item
Dispatch ==
    /\ pc \in PoolPcs
    /\ todo # <<>>
    /\ Cardinality(RunningSet) < jobs
    /\ LET s == Head(todo) IN
         /\ ex' = [ex EXCEPT ![s] = [@ EXCEPT !.pc = EntryPc, !.fn = EntryFn,
                                       !.seenSra = s \in sra_files,
                                       !.seenFastq = s \in fastq_files,
                                       !.seenTargets = filtered[s]]]
         /\ results' = Append(results, s)
    /\ todo' = Tail(todo)
    /\ UNCHANGED <<cfgvars, fsvars, cache, pc, runs, chunks, bx, validated>>

\* list(results): the results are taken in submission order; the result of
\* an item that raised is raised again in the driver
Collect ==
    /\ pc \in PoolPcs
    /\ results # <<>>
    /\ LET s == Head(results) IN
         /\ ex[s].pc \in {"returned", "raised"}
         /\ IF ex[s].pc = "raised"
            THEN /\ pc' = "raised"
                 /\ todo' = <<>>
                 /\ results' = <<>>
                 /\ chunks' = <<>>
            ELSE /\ results' = Tail(results)
                 /\ UNCHANGED <<pc, todo, chunks>>
    /\ UNCHANGED <<cfgvars, fsvars, cache, runs, ex, bx, validated>>

\* the with-block of get_data ends
GetDataExit ==
    /\ pc = "get_data"
    /\ todo = <<>>
    /\ results = <<>>
    /\ pc' = "idle"
    /\ ex' = [s \in Samples |-> NoEx]
    /\ UNCHANGED <<cfgvars, fsvars, cache, runs, chunks, todo, results, bx,
                   validated>>

\* the run that raised has ended; the program can be started again
EndRaisedRun ==
    /\ pc = "raised"
    /\ RunningSet = {}
    /\ pc' = "idle"
    /\ ex' = [s \in Samples |-> NoEx]
    /\ bx' = NoEx
    /\ UNCHANGED <<cfgvars, fsvars, cache, runs, chunks, todo, results,
                   validated>>


\* ------------------------------------------------- _mothur_filter_files
\* the check of line 145 taken out: the stage runs whatever exists
FilterCheck_norerun(s) ==
    /\ ex[s].pc = "check"
    /\ ex' = [ex EXCEPT ![s] = [@ EXCEPT !.pc = "setup"]]
    /\ UNCHANGED <<cfgvars, fsvars, cache, pc, runs, chunks, todo, results,
                   bx, validated>>

\* line 145: the completeness check, and line 225 when it holds
FilterCheck(s) ==
    /\ ex[s].pc = "check"
    /\ ex' = [ex EXCEPT ![s] =
         IF AllExist(s)
         THEN [Log(@, "warn_filtered_exists") EXCEPT !.pc = "returned"]
         ELSE [@ EXCEPT !.pc = "setup"]]
    /\ UNCHANGED <<cfgvars, fsvars, cache, pc, runs, chunks, todo, results,
                   bx, validated>>

\* get_random_str(): the prefix of the files of one mothur run
prefix == "rnd"

\* the primer columns of a row
primer_f(s) == <<"primer_f", s>>
primer_r(s) == <<"primer_r", s>>

\* line 284, get_files(sra_dir, "*.fastq"): the raw files of a sample whose
\* FASTQ files exist, two reads of a paired layout and one of a single one
RawFile(s, base) == [dir |-> s, base |-> base, ext |-> ".fastq"]
RawFiles(s, present) ==
    IF ~present THEN <<>>
    ELSE IF layout(s) = "paired"
         THEN <<RawFile(s, "reads_1"), RawFile(s, "reads_2")>>
         ELSE <<RawFile(s, "reads")>>

\* lines 110-114: the line of a raw file in the file list
get_fastq_file_line(fname) == <<fname.base, fname>>

\* line 164: the test that guards the primer file
WritesOligos(s) ==
    layout(s) = "paired" /\ trim_type(s) = [type |-> "str", value |-> "false"]

\* lines 155-169: the control files written into the workspace
ControlFiles(s) ==
    (IF layout(s) = "single"
     THEN {[name  |-> prefix \o ".file",
            lines |-> [i \in 1..Len(RawFiles(s, ex[s].files)) |->
                         get_fastq_file_line(RawFiles(s, ex[s].files)[i])]]}
     ELSE {})
    \cup
    (IF WritesOligos(s)
     THEN {[name  |-> "primers.oligos",
            lines |-> << <<"primer", primer_f(s), primer_r(s)>> >>]}
     ELSE {})

\* the config of the sample as lines 155-169 leave it
LocalConfig(s, w) ==
    ("layout" :> layout(s)) @@ ("trim_type" :> trim_type(s))
    @@ (IF layout(s) = "single"
        THEN ("fastq_file" :> <<w, prefix \o ".file">>)
             @@ ("group" :> <<w, prefix \o ".group">>)
        ELSE <<>>)
    @@ (IF WritesOligos(s) THEN ("oligos" :> <<w, "primers.oligos">>) ELSE <<>>)

\* lines 174-179: the mapping given to _build_mothur_script
ScriptConfig(w) ==
    [inputdir |-> w, prefix |-> prefix, processors |-> jobs,
     qaverage |-> quality_average, maxambig |-> maximum_ambiguity,
     maxhomop |-> maximum_homopolymers]

\* the names of the files lines 148-180 leave in the workspace
SetupFiles(s) ==
    {RawFiles(s, ex[s].files)[i].base \o ".fastq" :
        i \in 1..Len(RawFiles(s, ex[s].files))}
    \cup {c.name : c \in ControlFiles(s)}
    \cup {"script"}

\* line 148 as a move: the raw files leave the directory of the sample
FilterSetup_move(s) ==
    /\ ex[s].pc = "setup"
    /\ fastq_files' = fastq_files \ {s}
    /\ LET w == make_temp_dir IN
         /\ cache' = cache \cup {w}
         /\ ex' = [ex EXCEPT ![s] = [@ EXCEPT !.pc = "mothur", !.ws = w,
                                       !.wsfiles = SetupFiles(s),
                                       !.control = ControlFiles(s),
                                       !.script = {ScriptConfig(w)}]]
    /\ UNCHANGED <<cfgvars, sra_files, filtered, merged, silva, preprocessed,
                   pc, runs, chunks, todo, results, bx, validated>>

\* lines 146-180: the workspace is acquired, the raw files are copied into
\* it, the control files and the script are written
FilterSetup(s) ==
    /\ ex[s].pc = "setup"
    /\ LET w == make_temp_dir IN
         /\ cache' = cache \cup {w}
         /\ ex' = [ex EXCEPT ![s] = [@ EXCEPT !.pc = "mothur", !.ws = w,
                                       !.wsfiles = SetupFiles(s),
                                       !.control = ControlFiles(s),
                                       !.script = {ScriptConfig(w)}]]
    /\ UNCHANGED <<cfgvars, fsvars, pc, runs, chunks, todo, results, bx,
                   validated>>

\* the suffixes of line 193 with the two layouts exchanged
choice_swapped(l) ==
    IF l = "single"
    THEN <<".trim.contigs.trim.good.fasta", ".contigs.good.groups",
           ".trim.contigs.trim.good.summary">>
    ELSE <<".trim.good.fasta", ".good.group", ".trim.good.summary">>

\* lines 193-201: the suffixes of the three outputs of mothur
choice(l) ==
    IF l = "paired"
    THEN <<".trim.contigs.trim.good.fasta", ".contigs.good.groups",
           ".trim.contigs.trim.good.summary">>
    ELSE <<".trim.good.fasta", ".good.group", ".trim.good.summary">>

\* what mothur can have written when it returns zero: the expected files
\* up to the first one it failed to write (a later file cannot be copied
\* once an earlier one is missing)
ToolOutputs(s) ==
    {{prefix \o choice(layout(s))[i] : i \in 1..k} : k \in 0..Len(target_types)}

\* lines 184-189 and 222-223: mothur runs on the script
FilterMothur(s) ==
    /\ ex[s].pc = "mothur"
    /\ \E r \in ShellResults : \E out \in ToolOutputs(s) :
         /\ r # "zero" => out = {}
         /\ ex' = [ex EXCEPT ![s] =
              CASE r = "zero"       -> [Call(@, "mothur") EXCEPT !.pc = "copy",
                                           !.code = r, !.wsfiles = @ \cup out]
                [] r = "nonzero"    -> [Call(@, "mothur") EXCEPT !.pc = "release",
                                           !.code = r]
                [] r = "PopenError" -> [Log(Call(@, "mothur"), "err_filter")
                                           EXCEPT !.pc = "release", !.code = r]]
    /\ UNCHANGED <<cfgvars, fsvars, cache, pc, runs, chunks, todo, results,
                   bx, validated>>

\* the copies of lines 206-219 that are done, in order, before a source is
\* found missing
RECURSIVE Copied(_, _, _)
Copied(s, files, i) ==
    IF i > Len(target_types) \/ (prefix \o choice(layout(s))[i]) \notin files
    THEN <<>>
    ELSE <<[src  |-> prefix \o choice(layout(s))[i],
            dir  |-> s,
            dest |-> "filtered." \o target_types[i]]>>
         \o Copied(s, files, i + 1)

\* lines 204-221: the workspace outputs are copied to the target paths; a
\* source that does not exist raises out of the function
FilterCopy(s) ==
    /\ ex[s].pc = "copy"
    /\ LET done == Copied(s, ex[s].wsfiles, 1) IN
         /\ filtered' = [filtered EXCEPT ![s] =
                            @ \cup {target_types[i] : i \in 1..Len(done)}]
         /\ ex' = [ex EXCEPT ![s] =
              IF Len(done) = Len(target_types)
              THEN [Log(@, "info_copied") EXCEPT !.pc = "release",
                                                 !.copies = done]
              ELSE [@ EXCEPT !.pc = "release", !.err = "CopyError",
                             !.copies = done]]
    /\ UNCHANGED <<cfgvars, sra_files, fastq_files, merged, silva,
                   preprocessed, cache, pc, runs, chunks, todo, results, bx,
                   validated>>

\* the workspace removed by a statement at the end of the block, which an
\* error raised inside the block does not reach
FilterRelease_noerr(s) ==
    /\ ex[s].pc = "release"
    /\ cache' = IF ex[s].err = "none" THEN cache \ {ex[s].ws} ELSE cache
    /\ ex' = [ex EXCEPT ![s] = [@ EXCEPT !.ws = 0, !.wsfiles = {},
                 !.control = {}, !.script = {},
                 !.pc = IF ex[s].err = "none" THEN "returned" ELSE "raised"]]
    /\ UNCHANGED <<cfgvars, fsvars, pc, runs, chunks, todo, results, bx,
                   validated>>

\* line 146, the end of the with-block: the workspace is removed, and an
\* error raised inside the block goes on out of the function
FilterRelease(s) ==
    /\ ex[s].pc = "release"
    /\ cache' = cache \ {ex[s].ws}
    /\ ex' = [ex EXCEPT ![s] = [@ EXCEPT !.ws = 0, !.wsfiles = {},
                 !.control = {}, !.script = {},
                 !.pc = IF ex[s].err = "none" THEN "returned" ELSE "raised"]]
    /\ UNCHANGED <<cfgvars, fsvars, pc, runs, chunks, todo, results, bx,
                   validated>>

\* --------------------------------------------------------- filter_fastq
\* preprocess_data line 342 and filter_fastq lines 270-310: the configs are
\* built from the rows, chunked, and the first chunk is given to a pool
StartPreprocessData ==
    /\ pc = "idle"
    /\ runs < MaxRuns
    /\ RunningSet = {}
    /\ pc' = "filter"
    /\ runs' = runs + 1
    /\ LET cs == chunkify(data, filter_chunks) IN
         /\ todo' = Head(cs)
         /\ chunks' = Tail(cs)
    /\ results' = <<>>
    /\ ex' = [s \in Samples |-> [NoEx EXCEPT !.files = s \in fastq_files]]
    /\ bx' = NoEx
    /\ UNCHANGED <<cfgvars, fsvars, cache, validated>>

\* one pool for all the chunks: the next chunk is submitted while items of
\* the chunk before it are running
NextChunk_nobarrier ==
    /\ pc = "filter"
    /\ todo = <<>>
    /\ chunks # <<>>
    /\ todo' = Head(chunks)
    /\ chunks' = Tail(chunks)
    /\ UNCHANGED <<cfgvars, fsvars, cache, pc, runs, results, ex, bx, validated>>

\* lines 306-312: the pool of a chunk has ended, the next chunk gets its own
NextChunk ==
    /\ pc = "filter"
    /\ todo = <<>>
    /\ results = <<>>
    /\ chunks # <<>>
    /\ todo' = Head(chunks)
    /\ chunks' = Tail(chunks)
    /\ UNCHANGED <<cfgvars, fsvars, cache, pc, runs, results, ex, bx, validated>>

\* filter_fastq returning once every item is submitted, the results of
\* the pool not taken
FilterFastqExit_nowait ==
    /\ pc = "filter"
    /\ todo = <<>>
    /\ chunks = <<>>
    /\ pc' = "merge"
    /\ results' = <<>>
    /\ UNCHANGED <<cfgvars, fsvars, cache, runs, chunks, todo, ex, bx,
                   validated>>

\* filter_fastq returns; preprocess_data line 345 calls merge_fastq
FilterFastqExit ==
    /\ pc = "filter"
    /\ todo = <<>>
    /\ results = <<>>
    /\ chunks = <<>>
    /\ pc' = "merge"
    /\ UNCHANGED <<cfgvars, fsvars, cache, runs, chunks, todo, results, ex,
                   bx, validated>>

\* ----------------------------------------------------------- merge_fastq
\* get_files(data_dir, name): the files of that name under the data
\* directory
FilteredFound(t) == {s \in Samples : t \in filtered[s]}
MergedFound(t)   == {m \in merged : m[1] = t}

\* lines 232-235 and 268
MergeCheck ==
    /\ pc = "merge"
    /\ bx.pc = "idle"
    /\ IF FilteredFound("fasta") # {} /\ FilteredFound("group") # {}
       THEN /\ bx' = [bx EXCEPT !.pc = "setup", !.fn = "merge_fastq"]
            /\ UNCHANGED pc
       ELSE /\ bx' = [Log(bx, "warn_nothing_to_merge") EXCEPT !.pc = "returned",
                                                            !.fn = "merge_fastq"]
            /\ pc' = "install"
    /\ UNCHANGED <<cfgvars, fsvars, cache, runs, chunks, todo, results, ex,
                   validated>>

\* lines 241-251
MergeSetup ==
    /\ pc = "merge"
    /\ bx.pc = "setup"
    /\ LET w == make_temp_dir IN
         /\ cache' = cache \cup {w}
         /\ bx' = [bx EXCEPT !.pc = "mothur", !.ws = w, !.wsfiles = {"script"}]
    /\ UNCHANGED <<cfgvars, fsvars, pc, runs, chunks, todo, results, ex,
                   validated>>

\* places under the data directory where mothur leaves a merged file
MergeLocs == {"data_dir", "elsewhere"}

\* what a run of mothur that returns zero leaves of its two outputs: files
\* of the requested names at one of the places above, or no file of those
\* names (the output is written under names mothur chose, or not at all)
MergeWrites == MergeLocs \cup {"none"}

\* the files of type t a run of mothur adds to those of the requested name
Written(t, w) == IF w = "none" THEN {} ELSE {<<t, w>>}

\* the test of line 256 taken out: the moves are done whatever the status
MergeMothur_promote ==
    /\ pc = "merge"
    /\ bx.pc = "mothur"
    /\ \E r \in ShellResults : \E w \in MergeWrites :
         /\ r # "zero" => w = "none"
         /\ merged' = merged \cup Written("fasta", w) \cup Written("group", w)
         /\ bx' =
              CASE r = "zero"       -> [Call(bx, "mothur") EXCEPT !.pc = "move",
                                           !.code = r]
                [] r = "nonzero"    -> [Log(Call(bx, "mothur"), "err_merge")
                                           EXCEPT !.pc = "move", !.code = r]
                [] r = "PopenError" -> [Call(bx, "mothur") EXCEPT !.pc = "release",
                                           !.code = r, !.err = r]
    /\ UNCHANGED <<cfgvars, sra_files, fastq_files, filtered, silva,
                   preprocessed, cache, pc, runs, chunks, todo, results, ex,
                   validated>>

\* lines 253-256 and 265-266: mothur runs on the merge script
MergeMothur ==
    /\ pc = "merge"
    /\ bx.pc = "mothur"
    /\ \E r \in ShellResults : \E w \in MergeWrites :
         /\ r # "zero" => w = "none"
         /\ merged' = merged \cup Written("fasta", w) \cup Written("group", w)
         /\ bx' =
              CASE r = "zero"       -> [Call(bx, "mothur") EXCEPT !.pc = "move",
                                           !.code = r]
                [] r = "nonzero"    -> [Log(Call(bx, "mothur"), "err_merge")
                                           EXCEPT !.pc = "release", !.code = r]
                [] r = "PopenError" -> [Call(bx, "mothur") EXCEPT !.pc = "release",
                                           !.code = r, !.err = r]
    /\ UNCHANGED <<cfgvars, sra_files, fastq_files, filtered, silva, preprocessed, cache, pc,
                   runs, chunks, todo, results, ex, validated>>

\* move(*found, dest = <data_dir>/merged.<t>): the files found end at dest
MoveAll(m, t) ==
    IF MergedFound(t) = {} THEN m
    ELSE (m \ MergedFound(t)) \cup {<<t, "data_dir">>}

\* lines 258-264
MergeMove ==
    /\ pc = "merge"
    /\ bx.pc = "move"
    /\ merged' = MoveAll(MoveAll(merged, "fasta"), "group")
    /\ bx' = [Log(bx, "info_merged") EXCEPT !.pc = "release"]
    /\ UNCHANGED <<cfgvars, sra_files, fastq_files, filtered, silva, preprocessed, cache, pc,
                   runs, chunks, todo, results, ex, validated>>

\* the stage a batch-level stage is followed by
AfterStage == CASE pc = "merge" -> "install" [] pc = "preprocess" -> "idle"

\* the end of the with-block of merge_fastq (line 241) and preprocess_fasta
\* (line 320): the workspace is removed; an error goes on out of the driver
BatchRelease ==
    /\ pc \in {"merge", "preprocess"}
    /\ bx.pc = "release"
    /\ cache' = cache \ {bx.ws}
    /\ pc' = IF bx.err = "none" THEN AfterStage ELSE "raised"
    /\ IF pc' = "idle"
       THEN /\ bx' = NoEx
            /\ ex' = [s \in Samples |-> NoEx]
       ELSE /\ bx' = [bx EXCEPT !.ws = 0, !.wsfiles = {},
                         !.pc = IF bx.err = "none" THEN "returned" ELSE "raised"]
            /\ UNCHANGED ex
    /\ UNCHANGED <<cfgvars, fsvars, runs, chunks, todo, results, validated>>

\* -------------------------------------------------------- install_silva
InstallSilva ==
    /\ pc = "install"
    /\ silva' = TRUE
    /\ pc' = "preprocess"
    /\ bx' = NoEx
    /\ UNCHANGED <<cfgvars, sra_files, fastq_files, filtered, merged,
                   preprocessed, cache, runs, chunks, todo, results, ex,
                   validated>>

\* ------------------------------------------------------ preprocess_fasta
\* a test of the merged files put before line 320: without them the stage
\* is skipped and the driver returns
PreprocessSetup_checked ==
    /\ pc = "preprocess"
    /\ bx.pc = "idle"
    /\ IF {<<"fasta", "data_dir">>, <<"group", "data_dir">>} \subseteq merged
       THEN LET w == make_temp_dir IN
              /\ cache' = cache \cup {w}
              /\ bx' = [bx EXCEPT !.pc = "mothur", !.fn = "preprocess_fasta",
                                   !.ws = w, !.wsfiles = {"script"}]
              /\ UNCHANGED <<pc, ex>>
       ELSE /\ pc' = "idle"
            /\ bx' = NoEx
            /\ ex' = [s \in Samples |-> NoEx]
            /\ UNCHANGED cache
    /\ UNCHANGED <<cfgvars, fsvars, runs, chunks, todo, results, validated>>

\* lines 317-328
PreprocessSetup ==
    /\ pc = "preprocess"
    /\ bx.pc = "idle"
    /\ LET w == make_temp_dir IN
         /\ cache' = cache \cup {w}
         /\ bx' = [bx EXCEPT !.pc = "mothur", !.fn = "preprocess_fasta",
                              !.ws = w, !.wsfiles = {"script"}]
    /\ UNCHANGED <<cfgvars, fsvars, pc, runs, chunks, todo, results, ex,
                   validated>>

\* lines 330-336
PreprocessMothur ==
    /\ pc = "preprocess"
    /\ bx.pc = "mothur"
    /\ \E r \in ShellResults :
         /\ preprocessed' = (preprocessed \/ r = "zero")
         /\ bx' =
              CASE r = "zero"       -> [Call(bx, "mothur") EXCEPT !.pc = "release",
                                           !.code = r]
                [] r = "nonzero"    -> [Log(Call(bx, "mothur"), "err_preprocess")
                                           EXCEPT !.pc = "release", !.code = r]
                [] r = "PopenError" -> [Call(bx, "mothur") EXCEPT !.pc = "release",
                                           !.code = r, !.err = r]
    /\ UNCHANGED <<cfgvars, sra_files, fastq_files, filtered, merged, silva,
                   cache, pc, runs, chunks, todo, results, ex, validated>>

Next ==
    \/ StartGetData
    \/ Dispatch
    \/ Collect
    \/ GetDataExit
    \/ EndRaisedRun
    \/ \E s \in Samples : FetchSra(s)
    \/ \E s \in Samples : FetchValidate(s)
    \/ \E s \in Samples : FetchFastq(s)
    \/ StartPreprocessData
    \/ NextChunk
    \/ FilterFastqExit
    \/ \E s \in Samples : FilterCheck(s)
    \/ \E s \in Samples : FilterSetup(s)
    \/ \E s \in Samples : FilterMothur(s)
    \/ \E s \in Samples : FilterCopy(s)
    \/ \E s \in Samples : FilterRelease(s)
    \/ MergeCheck
    \/ MergeSetup
    \/ MergeMothur
    \/ MergeMove
    \/ BatchRelease
    \/ InstallSilva
    \/ PreprocessSetup
    \/ PreprocessMothur

Spec == Init /\ [][Next]_vars

\* ======================================================== properties
FilterEx(s) == ex[s].fn = "_mothur_filter_files"
FetchEx(s)  == ex[s].fn = "get_fastq"

\* the three filtered files of the sample exist
Filtered(s) == filtered[s] = TargetSet
\* the raw FASTQ files of the sample exist
Fetched(s)  == s \in fastq_files

\* a Filter execution that succeeded: zero status and the three copies done
FilterSucceeded(s) ==
    FilterEx(s) /\ ex[s].code = "zero" /\ "info_copied" \in ex[s].logged

\* the step of the completeness check of s, taken with the three files there
SkipStep(s) ==
    ex[s].pc = "check" /\ Filtered(s) /\ ex'[s] # ex[s]

\* C1: when the three filtered files exist at the time _mothur_filter_files
\* is invoked, the invocation returns at once with no workspace acquired, no
\* external process invoked and no file written; after a Filter execution
\* that succeeded the three files exist, and they go on existing, so every
\* later invocation for the sample is such a skip.
C1_FilterIdempotence ==
    /\ [](\A s \in Samples : FilterSucceeded(s) => Filtered(s))
    /\ [][\A s \in Samples :
            /\ Filtered(s) => Filtered(s)'
            /\ SkipStep(s) =>
                 /\ ex'[s].pc = "returned"
                 /\ ex'[s].called = {}
                 /\ ex'[s].ws = 0
                 /\ cache' = cache
                 /\ fsvars' = fsvars]_vars

\* a sample that started with FASTQ files only has been filtered by the
\* first run and is skipped, with no call, by the second
C1_Witness ==
    \E s \in Samples :
        /\ runs = 2
        /\ s \notin sra_files
        /\ FilterEx(s)
        /\ ex[s].pc = "returned"
        /\ ex[s].seenTargets = TargetSet
        /\ ex[s].called = {}
        /\ "warn_filtered_exists" \in ex[s].logged

\* the stage has been run in full by the execution of s: the workspace was
\* acquired and set up, and mothur was invoked
RanFullStage(s) ==
    /\ ex[s].pc \in {"mothur", "copy", "release"} =>
          /\ ex[s].ws \in cache
          /\ "script" \in ex[s].wsfiles
          /\ ex[s].files => \E f \in ex[s].wsfiles : f \notin {"script"}
    /\ ex[s].pc \in {"copy", "release", "returned", "raised"} =>
          "mothur" \in ex[s].called
    /\ (ex[s].pc = "returned" /\ ex[s].code = "zero") => Filtered(s)

\* C2: the completeness check holds iff all three target paths exist; with
\* any strict subset of them present the invocation is not a skip: it goes
\* on to acquire the workspace, copy the raw files, write the script and
\* run mothur, and after a zero status it returns only with all three
\* outputs copied.
C2_RetrySafety ==
    /\ [](\A s \in Samples :
            (FilterEx(s) /\ ex[s].pc # "check") =>
               IF ex[s].seenTargets = TargetSet
               THEN ex[s].pc = "returned" /\ ex[s].called = {}
               ELSE ex[s].pc # "idle" /\ RanFullStage(s))
    /\ [][\A s \in Samples :
            (ex[s].pc = "check" /\ ex'[s] # ex[s]) =>
               /\ (filtered[s] = TargetSet)  => ex'[s].pc = "returned"
               /\ (filtered[s] # TargetSet)  => ex'[s].pc = "setup"]_vars

\* an invocation that found a partial set of targets has run mothur
C2_Witness ==
    \E s \in Samples :
        /\ FilterEx(s)
        /\ ex[s].seenTargets \notin {{}, TargetSet}
        /\ ex[s].pc = "returned"
        /\ "mothur" \in ex[s].called
        /\ Filtered(s)

\* C3: a get_fastq invocation that found the FASTQ files of its sample
\* invokes none of prefetch, vdb-validate and fasterq-dump, whether or not
\* the .sra file is there.
C3_FetchSkip ==
    \A s \in Samples :
        (FetchEx(s) /\ ex[s].seenFastq) => ex[s].called = {}

\* a status other than zero came back from the last shell call of s
NonZero(s) == ex[s].code \in {"nonzero", "PopenError"}

\* C4: a sample becomes Fetched in a get_fastq invocation only with its
\* archive prefetched and validated and the extraction returning zero; a
\* non-zero status returned by any of the calls is logged and leaves the
\* sample Pending; fasterq-dump is never invoked for a sample whose
\* vdb-validate has not returned zero.
C4_FetchTransitions ==
    \A s \in Samples :
        FetchEx(s) =>
          /\ "fasterq-dump" \in ex[s].called => s \in validated
          /\ (~ex[s].seenFastq /\ Fetched(s)) =>
                /\ s \in sra_files
                /\ s \in validated
                /\ ex[s].code = "zero"
          /\ ex[s].code = "nonzero" =>
                /\ ex[s].logged \cap {"err_prefetch", "err_validate", "err_download"} # {}
                /\ ~ex[s].seenFastq => ~Fetched(s)

\* C5: when mothur comes back with a non-zero status in
\* _mothur_filter_files, the target directory has received no file, the
\* sample is not Filtered, and the failure has been logged with the sample
\* identifier.
C5_FilterFailure ==
    \A s \in Samples :
        (FilterEx(s) /\ NonZero(s)) =>
          /\ filtered[s] = ex[s].seenTargets
          /\ ~Filtered(s)
          /\ "err_filter" \in ex[s].logged

\* C6: no failure inside a Filter item is raised up through the dispatcher
\* of filter_fastq.
C6_FailureIsolation ==
    (\E s \in Samples : FilterEx(s)) => pc # "raised"

\* the executions that hold workspace w
Owners(w) ==
    {s \in Samples : ex[s].ws = w} \cup (IF bx.ws = w THEN {0} ELSE {})

\* C7: no two item executions running at the same time hold the same
\* workspace; every workspace under the cache root is held by exactly one
\* execution, the same one for as long as the workspace exists.
C7_WorkspaceExclusive ==
    /\ [](/\ \A s, t \in Samples :
               (s # t /\ ex[s].ws # 0 /\ ex[t].ws # 0) => ex[s].ws # ex[t].ws
          /\ \A w \in cache : Cardinality(Owners(w)) = 1)
    /\ [][\A w \in cache \cap cache' : Owners(w)' = Owners(w)]_vars

\* two Filter workers hold a workspace each at the same time
C7_Witness ==
    \E s, t \in Samples :
        /\ s # t
        /\ FilterEx(s) /\ FilterEx(t)
        /\ ex[s].pc = "mothur" /\ ex[t].pc = "copy"
        /\ ex[s].ws \in cache /\ ex[t].ws \in cache

\* positions inside the with-block of make_temp_dir
InScope(e) == e.pc \in {"mothur", "copy", "move", "release"}

\* the workspaces held by executions inside their with-block
Held ==
    {ex[s].ws : s \in {t \in Samples : InScope(ex[t])}}
    \cup (IF InScope(bx) THEN {bx.ws} ELSE {})

\* the pipeline run has ended: the driver is back and no worker is running
Terminated == pc \in {"idle", "raised"} /\ RunningSet = {}

drivervars == <<pc, runs, chunks, todo, results, bx, jobs, filter_chunks>>

\* C9: while the pool of get_data or of filter_fastq is open, at most
\* `jobs` per-item executions run at the same time, and a step of one
\* worker changes nothing of another worker's execution or of the driver.
C9_BoundedConcurrency ==
    /\ [](Cardinality(RunningSet) <= jobs)
    /\ [][\A s \in Samples :
            (Running(s) /\ ex'[s] # ex[s]) =>
               /\ \A t \in Samples \ {s} : ex'[t] = ex[t]
               /\ drivervars' = drivervars]_vars

\* the pool is full and an item is waiting for a worker
C9_Witness ==
    /\ pc \in PoolPcs
    /\ Cardinality(RunningSet) = jobs
    /\ todo # <<>>

\* the order of the stages of the driver
StageOrder ==
    {<<"idle", "get_data">>, <<"get_data", "idle">>,
     <<"idle", "filter">>, <<"filter", "merge">>, <<"merge", "install">>,
     <<"install", "preprocess">>, <<"preprocess", "idle">>,
     <<"get_data", "raised">>, <<"filter", "raised">>, <<"merge", "raised">>,
     <<"preprocess", "raised">>, <<"raised", "idle">>}

\* C10: preprocess_data goes through Filter-all-samples, Merge,
\* Reference-Install and Preprocess in that order; while Merge,
\* Reference-Install or Preprocess runs, every Filter execution of the batch
\* has returned and no worker is running.
C10_StageBarrier ==
    /\ [](pc \in {"merge", "install", "preprocess"} =>
            /\ RunningSet = {}
            /\ todo = <<>> /\ results = <<>> /\ chunks = <<>>
            /\ \A s \in Samples : FilterEx(s) /\ ex[s].pc = "returned")
    /\ [][pc' # pc => <<pc, pc'>> \in StageOrder]_vars

\* Preprocess is running, after Install, after a Merge that ran mothur
C10_Witness ==
    /\ pc = "preprocess"
    /\ bx.pc = "mothur"
    /\ silva
    /\ merged # {}
    /\ \A s \in Samples : FilterEx(s) /\ ex[s].pc = "returned"

\* the merged files of the requested names at their requested paths
MergedAtDest == {<<"fasta", "data_dir">>, <<"group", "data_dir">>}

\* C11: merge_fastq acquires a workspace and invokes mothur only when both
\* the list of filtered.fasta files and the list of filtered.group files
\* are non-empty; and once mothur has returned zero and merge_fastq has
\* done its moves, exactly one merged.fasta and one merged.group exist, at
\* the data directory, whatever the names and places mothur wrote to.
C11_MergeCorrectness ==
    bx.fn = "merge_fastq" =>
       /\ (FilteredFound("fasta") = {} \/ FilteredFound("group") = {}) =>
             (bx.called = {} /\ bx.ws = 0 /\ bx.pc = "returned")
       /\ (bx.code = "zero" /\ bx.pc \in {"release", "returned"}) =>
             merged = MergedAtDest

\* every stage has left its expected output: the archive and the raw files
\* of every sample, its three filtered files, the two merged files, the
\* reference database and the output of Preprocess
AllStagesDone ==
    /\ \A s \in Samples : s \in sra_files /\ Fetched(s) /\ Filtered(s)
    /\ MergedAtDest \subseteq merged
    /\ silva
    /\ preprocessed

\* C12: every stage is gated by the presence of its expected output: once
\* every stage has succeeded, no stage of a later run invokes an external
\* process; in particular Merge and Preprocess do not invoke mothur again
\* when merged.fasta and merged.group exist.  (An execution that has
\* already invoked a process belongs to the run that completed the outputs;
\* the ones of a later run have invoked nothing.)
C12_PipelineIdempotence ==
    [][AllStagesDone =>
          /\ \A s \in Samples : ex[s].called = {} => ex'[s].called = {}
          /\ bx.called = {} => bx'.called = {}]_vars

C14_FilterFrame ==
    [][\A s \in Samples :
          (FilterEx(s) /\ ex'[s] # ex[s] /\ ex'[s].fn = ex[s].fn) =>
             /\ fastq_files' = fastq_files
             /\ sra_files' = sra_files
             /\ merged' = merged
             /\ \A t \in Samples \ {s} : filtered'[t] = filtered[t]
             /\ filtered[s] \subseteq filtered'[s]
             /\ filtered'[s] \subseteq TargetSet]_vars

\* two Filter executions have written their three files, each into the
\* directory of its own sample, and the raw files of both are still there
C14_Witness ==
    /\ pc = "filter"
    /\ \E s \in Samples : \E t \in Samples \ {s} :
          /\ FilterSucceeded(s) /\ FilterSucceeded(t)
          /\ Fetched(s) /\ Fetched(t)
          /\ Filtered(s) /\ Filtered(t)

\* the trimmed flag of the row is false
Untrimmed(s) == trim_type(s).value \in {"false", "False"}

\* the Filter execution of s is inside its workspace, past the setup
PastSetup(s) == FilterEx(s) /\ ex[s].pc \in {"mothur", "copy", "release"}

\* C15: for every row that is incomplete when filtered, a paired row whose
\* trimmed flag is false gets a primer file with the one line
\* "primer <primer_f> <primer_r>", and a single row gets a file list with
\* one line "<prefix> <path>" per raw file, the prefix being the base name
\* of the raw file without its extension.
C15_ControlFiles ==
    \A s \in Samples : PastSetup(s) =>
       /\ (layout(s) = "paired" /\ Untrimmed(s)) =>
             [name  |-> "primers.oligos",
              lines |-> << <<"primer", primer_f(s), primer_r(s)>> >>]
                \in ex[s].control
       /\ layout(s) = "single" =>
             \E c \in ex[s].control :
                /\ c.name = prefix \o ".file"
                /\ Len(c.lines) = Len(RawFiles(s, ex[s].files))
                /\ \A i \in 1..Len(c.lines) :
                      c.lines[i] = <<RawFiles(s, ex[s].files)[i].base,
                                     RawFiles(s, ex[s].files)[i]>>

\* C16: the mapping _mothur_filter_files gives to the script renderer holds
\* the parameters of the sample -- its layout, the primer file when the row
\* is paired and its trimmed flag false, the file list and the group path
\* when it is single -- and the quality, ambiguity and homopolymer
\* thresholds of the settings.
C16_ScriptParameters ==
    \A s \in Samples : PastSetup(s) =>
       \E c \in ex[s].script :
          /\ "layout" \in DOMAIN c
          /\ c["layout"] = LocalConfig(s, ex[s].ws)["layout"]
          /\ (layout(s) = "paired" /\ Untrimmed(s)) =>
                ("oligos" \in DOMAIN c
                   /\ c["oligos"] = <<ex[s].ws, "primers.oligos">>)
          /\ layout(s) = "single" =>
                /\ {"fastq_file", "group"} \subseteq DOMAIN c
                /\ c["fastq_file"] = LocalConfig(s, ex[s].ws)["fastq_file"]
                /\ c["group"] = LocalConfig(s, ex[s].ws)["group"]
          /\ c["qaverage"] = quality_average
          /\ c["maxambig"] = maximum_ambiguity
          /\ c["maxhomop"] = maximum_homopolymers

\* C17: a sample goes from Pending (no raw files) to Fetched (raw files) to
\* Filtered (three filtered files) and skips no state: mothur is invoked by
\* a Filter execution only for a sample whose raw FASTQ files exist, and a
\* sample without raw files never becomes Filtered.
C17_SampleStateOrder ==
    /\ [](\A s \in Samples :
            (FilterEx(s) /\ "mothur" \in ex[s].called) => Fetched(s))
    /\ [][\A s \in Samples :
            (~Filtered(s) /\ Filtered(s)') => Fetched(s)]_vars

\* the three copies of a sample as the routing rule states them
RoutedCopies(s) ==
    IF layout(s) = "paired"
    THEN <<[src |-> prefix \o ".trim.contigs.trim.good.fasta", dir |-> s,
            dest |-> "filtered.fasta"],
           [src |-> prefix \o ".contigs.good.groups", dir |-> s,
            dest |-> "filtered.group"],
           [src |-> prefix \o ".trim.contigs.trim.good.summary", dir |-> s,
            dest |-> "filtered.summary"]>>
    ELSE <<[src |-> prefix \o ".trim.good.fasta", dir |-> s,
            dest |-> "filtered.fasta"],
           [src |-> prefix \o ".good.group", dir |-> s,
            dest |-> "filtered.group"],
           [src |-> prefix \o ".trim.good.summary", dir |-> s,
            dest |-> "filtered.summary"]>>

\* C18: after a zero status _mothur_filter_files copies the workspace files
\* <prefix><suffix> to filtered.fasta, filtered.group and filtered.summary
\* of the sample, in that order, with the suffixes of the layout of the
\* sample; no copy is made without a zero status, and once the three are
\* made the completeness check of the sample holds.
C18_OutputRouting ==
    \A s \in Samples : FilterEx(s) =>
       /\ ex[s].code # "zero" => ex[s].copies = <<>>
       /\ Len(ex[s].copies) <= Len(RoutedCopies(s))
       /\ \A i \in 1..Len(ex[s].copies) : ex[s].copies[i] = RoutedCopies(s)[i]
       /\ (ex[s].code = "zero" /\ ex[s].err = "none"
             /\ ex[s].pc \in {"release", "returned"}) =>
                (ex[s].copies = RoutedCopies(s) /\ AllExist(s))

\* a paired and a single sample have both had their three files copied
C18_Witness ==
    \E s \in Samples : \E t \in Samples :
       /\ layout(s) = "paired" /\ layout(t) = "single"
       /\ FilterEx(s) /\ Len(ex[s].copies) = Len(target_types)
       /\ FilterEx(t) /\ Len(ex[t].copies) = Len(target_types)
       /\ ex[s].seenTargets # TargetSet /\ ex[t].seenTargets # TargetSet

\* the chunk of filter_fastq the row of a sample falls in
ChunkOf(s) == (s - 1) \div filter_chunks

Min(a, b) == IF a <= b THEN a ELSE b

\* the samples whose Filter execution is running
FilterRunning == {s \in Samples : FilterEx(s) /\ Running(s)}

DriverStages == {"filter", "merge", "install", "preprocess"}

\* no error has been raised in the run: every failure of an external tool
\* was reported by a non-zero status
NoErrorRaised ==
    /\ bx.err = "none"
    /\ \A s \in Samples : ex[s].err = "none"

\* C20: as long as the external tools report failure by a non-zero status
\* only, preprocess_data leaves none of its four stages out: it returns
\* only at the end of preprocess_fasta, after mothur was invoked there; a
\* Merge that was skipped or that failed is followed by the install stage;
\* and preprocess_fasta acquires a workspace and invokes mothur without
\* looking for the merged files.
C20_NoShortCircuit ==
    /\ [][(pc \in DriverStages /\ pc' \notin DriverStages /\ NoErrorRaised) =>
             /\ pc = "preprocess" /\ pc' = "idle"
             /\ bx.fn = "preprocess_fasta"
             /\ "mothur" \in bx.called]_vars
    /\ []((bx.fn = "merge_fastq" /\ bx.pc = "returned") => pc = "install")
    /\ [][(pc = "preprocess" /\ bx.pc = "idle" /\ bx' # bx) =>
             /\ bx'.fn = "preprocess_fasta" /\ bx'.pc = "mothur"
             /\ bx'.ws \in cache' \ cache]_vars
    /\ [][(pc = "preprocess" /\ bx.pc = "mothur" /\ bx' # bx) =>
             "mothur" \in bx'.called]_vars

\* preprocess_fasta has invoked mothur in its workspace with no merged file
\* at the data directory
C20_Witness ==
    /\ pc = "preprocess"
    /\ bx.fn = "preprocess_fasta"
    /\ bx.pc = "release"
    /\ bx.ws \in cache
    /\ "mothur" \in bx.called
    /\ merged = {}
    /\ silva

====
